---- MODULE Spec2Model ----
(***************************************************************************)
(* NativeBankContract (core/executor/src/native_contract/bank.rs): the     *)
(* asset registry of the executor.  register derives the asset id from the *)
(* chain id and the contract address, checks the state adapter for the id, *)
(* stages the new record and meters the BankRegister action against the    *)
(* invocation context; get_asset reads a record back.                      *)
(*                                                                         *)
(* The state adapter (contains / get / insert_cache / commit), the cycle   *)
(* meter (crate::cycles), the protocol types (Hash, ContractAddress) and   *)
(* the fixed codec wrappers live outside bank.rs; they are modelled at the *)
(* interface the specification gives them (sections 2 and 6).  The         *)
(* framework's rollback of a session is not modelled: a behaviour of Spec  *)
(* is one store session and the sessions derived from it by commit; a      *)
(* behaviour of SpecIso interleaves the calls of two independent sessions  *)
(* on one world state, up to the commit of either.                         *)
(***************************************************************************)
EXTENDS Integers, Sequences, FiniteSets

\* ---------------------------------------------------------------- bounds

\* The second byte of a contract address ranges over 0..MaxAddrByte.
MaxAddrByte == 2

\* Asset ids (hash values) range over 0..HashSpace-1; fewer ids than asset
\* addresses, so that two addresses can derive the same id.
HashSpace == 2

\* The largest cycles_limit the framework hands out.
MaxLimit == 4

\* ------------------------------------------------------- protocol types

\* Option<T>: None is the empty sequence, Some(x) the one-element sequence.
None == <<>>

Some(x) == <<x>>

\* The first byte of a ContractAddress is its contract-type tag.
AssetTag == 32

AppTag == 33

ContractTags == {AssetTag, AppTag}

\* ContractAddress values, as their raw bytes <<tag, b>>.
Addresses == {<<t, b>> : t \in ContractTags, b \in 0..MaxAddrByte}

\* ContractAddress::contract_type(): decided by the tag byte.
ContractType(address) ==
    IF address[1] = AssetTag THEN "Asset" ELSE "App"

\* The polynomial a digest is reduced from: every byte and its position count.
RECURSIVE Poly(_)
Poly(bytes) ==
    IF bytes = <<>> THEN 7
    ELSE Poly(SubSeq(bytes, 1, Len(bytes) - 1)) * 31 + bytes[Len(bytes)] + 1

\* Hash::digest(bytes): a deterministic function of the bytes into the id
\* space; the division mixes the bytes, so that their order matters whatever
\* the size of the id space.
Digest(bytes) == (Poly(bytes) \div 7) % HashSpace

\* Hash::from_empty(): the canonical empty hash.
EmptyHash == Digest(<<>>)

AssetIDs == 0..(HashSpace - 1)

\* The chain id the registry is constructed with (Hash::as_bytes()).
ChainIds == {<<1>>}

\* The (name, symbol, supply) triples callers supply.
Metas ==
    { [name |-> "Foo", symbol |-> "FOO", supply |-> 1000],
      [name |-> "Bar", symbol |-> "BAR", supply |-> 0] }

\* FixedAssetID::new(id) and FixedAsset::new(asset): the fixed-codec wrappers.
FixedAssetID(id) == [inner |-> id]

FixedAsset(asset) == [inner |-> asset]

\* ------------------------------------------------- ProtocolResult values

Ok(asset) == [kind |-> "Ok", id |-> None, asset |-> Some(asset)]

\* NativeBankContractError, and the meter's error, as Err values.
AssetExists(id) == [kind |-> "AssetExists", id |-> Some(id), asset |-> None]

NotFound(id) == [kind |-> "NotFound", id |-> Some(id), asset |-> None]

InvalidAddress == [kind |-> "InvalidAddress", id |-> None, asset |-> None]

OutOfCycles == [kind |-> "OutOfCycles", id |-> None, asset |-> None]

\* ------------------------------------------------------ the state adapter
\* A store session: st.cache is the staged (uncommitted) layer, st.committed
\* the world state; both map FixedAssetID keys to FixedAsset values.

EmptyMap == [k \in {} |-> k]

Put(map, key, value) ==
    [k \in (DOMAIN map) \cup {key} |-> IF k = key THEN value ELSE map[k]]

\* ContractStateAdapter::contains::<FixedAssetSchema>(key)
Contains(st, key) ==
    key \in DOMAIN st.cache \/ key \in DOMAIN st.committed

\* ContractStateAdapter::get::<FixedAssetSchema>(key): the staged layer first.
Get(st, key) ==
    IF key \in DOMAIN st.cache THEN Some(st.cache[key])
    ELSE IF key \in DOMAIN st.committed THEN Some(st.committed[key])
    ELSE None

\* ContractStateAdapter::insert_cache::<FixedAssetSchema>(key, value)
InsertCache(st, key, value) ==
    [st EXCEPT !.cache = Put(st.cache, key, value)]

\* ContractStateAdapter::commit(): the staged layer becomes world state.
CommitStore(st) ==
    [cache |-> EmptyMap,
     committed |-> [k \in (DOMAIN st.committed) \cup (DOMAIN st.cache) |->
                       IF k \in DOMAIN st.cache THEN st.cache[k]
                       ELSE st.committed[k]]]

\* --------------------------------------------------------- the cycle meter

\* The cycles the BankRegister action costs per unit of price.
BankRegisterCycles == 2

CyclesOf(action) == IF action = "BankRegister" THEN BankRegisterCycles ELSE 1

\* The metered cost of an action at a price.
CyclesCost(action, price) == price * CyclesOf(action)

\* consume_cycles(action, price, &mut fee, &limit): fee after the call and
\* whether it succeeded; a failure leaves fee as it was.
ConsumeCycles(action, price, fee, limit) ==
    LET used == fee + CyclesCost(action, price)
    IN  IF used > limit
        THEN [ok |-> FALSE, fee |-> fee]
        ELSE [ok |-> TRUE, fee |-> used]

\* ------------------------------------------------------ NativeBankContract

\* NativeBankContract::new(chain_id, state_adapter)
New(chain_id) == [chain_id |-> chain_id]

\* The asset id derived with the address bytes first and the chain id second.
AssetIdOfSwapped(self, address) == Digest(address \o self.chain_id)

\* The asset id register derives: Hash(ChainID + AssetContractAddress).
AssetIdOf(self, address) == Digest(self.chain_id \o address)

\* What a call leaves behind: the registry, the store session, the invocation
\* context, and the value returned.
Outcome(self, st, ictx, ret) ==
    [self |-> self, st |-> st, ictx |-> ictx, ret |-> ret]

\* Register without the existence check of lines 62-68.
RegisterUnchecked(self, st, ictx, address, name, symbol, supply) ==
    IF ContractType(address) # "Asset"
    THEN Outcome(self, st, ictx, InvalidAddress)
    ELSE
    LET asset_id == AssetIdOf(self, address)
        asset == [name |-> name, symbol |-> symbol, supply |-> supply,
                  id |-> asset_id, manage_contract |-> address,
                  storage_root |-> EmptyHash]
        st1 == InsertCache(st, FixedAssetID(asset_id), FixedAsset(asset))
        metered == ConsumeCycles("BankRegister", ictx.cycles_price,
                                 ictx.cycles_used, ictx.cycles_limit)
    IN  IF ~metered.ok
        THEN Outcome(self, st1, ictx, OutOfCycles)
        ELSE Outcome(self, st1, [ictx EXCEPT !.cycles_used = metered.fee],
                     Ok(asset))

\* Register that stages the record before it checks the address type.
RegisterStagesFirst(self, st, ictx, address, name, symbol, supply) ==
    LET asset_id == AssetIdOf(self, address)
        asset == [name |-> name, symbol |-> symbol, supply |-> supply,
                  id |-> asset_id, manage_contract |-> address,
                  storage_root |-> EmptyHash]
        st1 == InsertCache(st, FixedAssetID(asset_id), FixedAsset(asset))
        metered == ConsumeCycles("BankRegister", ictx.cycles_price,
                                 ictx.cycles_used, ictx.cycles_limit)
    IN  IF Contains(st, FixedAssetID(asset_id))
        THEN Outcome(self, st, ictx, AssetExists(asset_id))
        ELSE IF ContractType(address) # "Asset"
        THEN Outcome(self, st1, ictx, InvalidAddress)
        ELSE IF ~metered.ok
        THEN Outcome(self, st1, ictx, OutOfCycles)
        ELSE Outcome(self, st1, [ictx EXCEPT !.cycles_used = metered.fee],
                     Ok(asset))

\* Register that builds the Asset with name and symbol swapped.
RegisterSwapped(self, st, ictx, address, name, symbol, supply) ==
    IF ContractType(address) # "Asset"
    THEN Outcome(self, st, ictx, InvalidAddress)
    ELSE
    LET asset_id == AssetIdOf(self, address)
    IN  IF Contains(st, FixedAssetID(asset_id))
        THEN Outcome(self, st, ictx, AssetExists(asset_id))
        ELSE
        LET asset == [name |-> symbol, symbol |-> name, supply |-> supply,
                      id |-> asset_id, manage_contract |-> address,
                      storage_root |-> EmptyHash]
            st1 == InsertCache(st, FixedAssetID(asset_id), FixedAsset(asset))
            metered == ConsumeCycles("BankRegister", ictx.cycles_price,
                                     ictx.cycles_used, ictx.cycles_limit)
        IN  IF ~metered.ok
            THEN Outcome(self, st1, ictx, OutOfCycles)
            ELSE Outcome(self, st1, [ictx EXCEPT !.cycles_used = metered.fee],
                         Ok(asset))

\* Register that returns the asset but stages a record whose supply is reset.
RegisterStoresOther(self, st, ictx, address, name, symbol, supply) ==
    IF ContractType(address) # "Asset"
    THEN Outcome(self, st, ictx, InvalidAddress)
    ELSE
    LET asset_id == AssetIdOf(self, address)
    IN  IF Contains(st, FixedAssetID(asset_id))
        THEN Outcome(self, st, ictx, AssetExists(asset_id))
        ELSE
        LET asset == [name |-> name, symbol |-> symbol, supply |-> supply,
                      id |-> asset_id, manage_contract |-> address,
                      storage_root |-> EmptyHash]
            st1 == InsertCache(st, FixedAssetID(asset_id),
                               FixedAsset([asset EXCEPT !.supply = 0]))
            metered == ConsumeCycles("BankRegister", ictx.cycles_price,
                                     ictx.cycles_used, ictx.cycles_limit)
        IN  IF ~metered.ok
            THEN Outcome(self, st1, ictx, OutOfCycles)
            ELSE Outcome(self, st1, [ictx EXCEPT !.cycles_used = metered.fee],
                         Ok(asset))

\* Register that forgets to write the fee back into the context (line 94).
RegisterNoWriteBack(self, st, ictx, address, name, symbol, supply) ==
    IF ContractType(address) # "Asset"
    THEN Outcome(self, st, ictx, InvalidAddress)
    ELSE
    LET asset_id == AssetIdOf(self, address)
    IN  IF Contains(st, FixedAssetID(asset_id))
        THEN Outcome(self, st, ictx, AssetExists(asset_id))
        ELSE
        LET asset == [name |-> name, symbol |-> symbol, supply |-> supply,
                      id |-> asset_id, manage_contract |-> address,
                      storage_root |-> EmptyHash]
            st1 == InsertCache(st, FixedAssetID(asset_id), FixedAsset(asset))
            metered == ConsumeCycles("BankRegister", ictx.cycles_price,
                                     ictx.cycles_used, ictx.cycles_limit)
        IN  IF ~metered.ok
            THEN Outcome(self, st1, ictx, OutOfCycles)
            ELSE Outcome(self, st1, ictx, Ok(asset))

\* Register that meters before it stages: a cycle-limit failure stages nothing.
RegisterMetersFirst(self, st, ictx, address, name, symbol, supply) ==
    IF ContractType(address) # "Asset"
    THEN Outcome(self, st, ictx, InvalidAddress)
    ELSE
    LET asset_id == AssetIdOf(self, address)
    IN  IF Contains(st, FixedAssetID(asset_id))
        THEN Outcome(self, st, ictx, AssetExists(asset_id))
        ELSE
        LET asset == [name |-> name, symbol |-> symbol, supply |-> supply,
                      id |-> asset_id, manage_contract |-> address,
                      storage_root |-> EmptyHash]
            st1 == InsertCache(st, FixedAssetID(asset_id), FixedAsset(asset))
            metered == ConsumeCycles("BankRegister", ictx.cycles_price,
                                     ictx.cycles_used, ictx.cycles_limit)
        IN  IF ~metered.ok
            THEN Outcome(self, st, ictx, OutOfCycles)
            ELSE Outcome(self, st1, [ictx EXCEPT !.cycles_used = metered.fee],
                         Ok(asset))

\* Register that adds the cost to the context's cycles_used in place, before
\* the limit is checked, instead of on a local copy.
RegisterChargesInPlace(self, st, ictx, address, name, symbol, supply) ==
    IF ContractType(address) # "Asset"
    THEN Outcome(self, st, ictx, InvalidAddress)
    ELSE
    LET asset_id == AssetIdOf(self, address)
    IN  IF Contains(st, FixedAssetID(asset_id))
        THEN Outcome(self, st, ictx, AssetExists(asset_id))
        ELSE
        LET asset == [name |-> name, symbol |-> symbol, supply |-> supply,
                      id |-> asset_id, manage_contract |-> address,
                      storage_root |-> EmptyHash]
            st1 == InsertCache(st, FixedAssetID(asset_id), FixedAsset(asset))
            metered == ConsumeCycles("BankRegister", ictx.cycles_price,
                                     ictx.cycles_used, ictx.cycles_limit)
            charged == [ictx EXCEPT !.cycles_used =
                          @ + CyclesCost("BankRegister", ictx.cycles_price)]
        IN  IF ~metered.ok
            THEN Outcome(self, st1, charged, OutOfCycles)
            ELSE Outcome(self, st1, charged, Ok(asset))

\* Register that meters before the existence check.
RegisterMetersBeforeExists(self, st, ictx, address, name, symbol, supply) ==
    IF ContractType(address) # "Asset"
    THEN Outcome(self, st, ictx, InvalidAddress)
    ELSE
    LET asset_id == AssetIdOf(self, address)
        metered == ConsumeCycles("BankRegister", ictx.cycles_price,
                                 ictx.cycles_used, ictx.cycles_limit)
    IN  IF ~metered.ok
        THEN Outcome(self, st, ictx, OutOfCycles)
        ELSE IF Contains(st, FixedAssetID(asset_id))
        THEN Outcome(self, st, ictx, AssetExists(asset_id))
        ELSE
        LET asset == [name |-> name, symbol |-> symbol, supply |-> supply,
                      id |-> asset_id, manage_contract |-> address,
                      storage_root |-> EmptyHash]
            st1 == InsertCache(st, FixedAssetID(asset_id), FixedAsset(asset))
        IN  Outcome(self, st1, [ictx EXCEPT !.cycles_used = metered.fee],
                    Ok(asset))

\* Register that writes the metered fee into cycles_limit, not cycles_used.
RegisterWritesLimit(self, st, ictx, address, name, symbol, supply) ==
    IF ContractType(address) # "Asset"
    THEN Outcome(self, st, ictx, InvalidAddress)
    ELSE
    LET asset_id == AssetIdOf(self, address)
    IN  IF Contains(st, FixedAssetID(asset_id))
        THEN Outcome(self, st, ictx, AssetExists(asset_id))
        ELSE
        LET asset == [name |-> name, symbol |-> symbol, supply |-> supply,
                      id |-> asset_id, manage_contract |-> address,
                      storage_root |-> EmptyHash]
            st1 == InsertCache(st, FixedAssetID(asset_id), FixedAsset(asset))
            metered == ConsumeCycles("BankRegister", ictx.cycles_price,
                                     ictx.cycles_used, ictx.cycles_limit)
        IN  IF ~metered.ok
            THEN Outcome(self, st1, ictx, OutOfCycles)
            ELSE Outcome(self, st1, [ictx EXCEPT !.cycles_limit = metered.fee],
                         Ok(asset))

\* Register that commits the store after staging the record.
RegisterCommits(self, st, ictx, address, name, symbol, supply) ==
    IF ContractType(address) # "Asset"
    THEN Outcome(self, st, ictx, InvalidAddress)
    ELSE
    LET asset_id == AssetIdOf(self, address)
    IN  IF Contains(st, FixedAssetID(asset_id))
        THEN Outcome(self, st, ictx, AssetExists(asset_id))
        ELSE
        LET asset == [name |-> name, symbol |-> symbol, supply |-> supply,
                      id |-> asset_id, manage_contract |-> address,
                      storage_root |-> EmptyHash]
            st1 == CommitStore(InsertCache(st, FixedAssetID(asset_id),
                                           FixedAsset(asset)))
            metered == ConsumeCycles("BankRegister", ictx.cycles_price,
                                     ictx.cycles_used, ictx.cycles_limit)
        IN  IF ~metered.ok
            THEN Outcome(self, st1, ictx, OutOfCycles)
            ELSE Outcome(self, st1, [ictx EXCEPT !.cycles_used = metered.fee],
                         Ok(asset))

\* NativeBankContract::register
Register(self, st, ictx, address, name, symbol, supply) ==
    IF ContractType(address) # "Asset"
    THEN Outcome(self, st, ictx, InvalidAddress)
    ELSE
    LET asset_id == AssetIdOf(self, address)
    IN  IF Contains(st, FixedAssetID(asset_id))
        THEN Outcome(self, st, ictx, AssetExists(asset_id))
        ELSE
        LET asset == [name |-> name,
                      symbol |-> symbol,
                      supply |-> supply,
                      id |-> asset_id,
                      manage_contract |-> address,
                      storage_root |-> EmptyHash]
            st1 == InsertCache(st, FixedAssetID(asset_id), FixedAsset(asset))
            metered == ConsumeCycles("BankRegister", ictx.cycles_price,
                                     ictx.cycles_used, ictx.cycles_limit)
        IN  IF ~metered.ok
            THEN Outcome(self, st1, ictx, OutOfCycles)
            ELSE Outcome(self, st1,
                         [ictx EXCEPT !.cycles_used = metered.fee],
                         Ok(asset))

\* get_asset that meters the read against the context.
GetAssetCharges(self, st, ictx, id) ==
    LET found == Get(st, FixedAssetID(id))
        charged == [ictx EXCEPT !.cycles_used = @ + 1]
    IN  IF found = None
        THEN Outcome(self, st, charged, NotFound(id))
        ELSE Outcome(self, st, charged, Ok(found[1].inner))

\* get_asset whose NotFound carries the empty hash instead of the id asked for.
GetAssetLosesId(self, st, ictx, id) ==
    LET found == Get(st, FixedAssetID(id))
    IN  IF found = None
        THEN Outcome(self, st, ictx, NotFound(EmptyHash))
        ELSE Outcome(self, st, ictx, Ok(found[1].inner))

\* NativeBankContract::get_asset
GetAsset(self, st, ictx, id) ==
    LET found == Get(st, FixedAssetID(id))
    IN  IF found = None
        THEN Outcome(self, st, ictx, NotFound(id))
        ELSE Outcome(self, st, ictx, Ok(found[1].inner))

\* ------------------------------------------------------------------ state

VARIABLES
    bank,           \* the registry: its chain_id
    state_adapter,  \* the store session the registry holds a handle to
    ictx,           \* the invocation context the framework passes in
    last,           \* the call made by the latest step and what it returned
    registered,     \* per address, the asset its first successful register returned
    exhausted,      \* the addresses whose register failed on the cycle limit
    peer            \* a separate, independent store session on the same world state

vars == <<bank, state_adapter, ictx, last, registered, exhausted, peer>>

\* An InvokeContext as the framework constructs it: nothing used yet.
Contexts ==
    {[cycles_used |-> 0, cycles_price |-> p, cycles_limit |-> l] :
        p \in {1, 2}, l \in 0..MaxLimit}

Call(op, address, meta, id, ret) ==
    [op |-> op, address |-> address, meta |-> meta, id |-> id, ret |-> ret]

Init ==
    /\ bank \in {New(c) : c \in ChainIds}
    /\ state_adapter = [cache |-> EmptyMap, committed |-> EmptyMap]
    /\ ictx \in Contexts
    /\ last = Call("new", None, None, None, None)
    /\ registered = [a \in Addresses |-> None]
    /\ exhausted = {}
    /\ peer = [cache |-> EmptyMap, committed |-> EmptyMap]

\* A caller invokes register.
DoRegister ==
    \E address \in Addresses, m \in Metas :
        LET r == Register(bank, state_adapter, ictx, address,
                          m.name, m.symbol, m.supply)
        IN  /\ bank' = r.self
            /\ state_adapter' = r.st
            /\ ictx' = r.ictx
            /\ last' = Call("register", Some(address), Some(m), None, r.ret)
            /\ registered' =
                 IF r.ret.kind = "Ok" /\ registered[address] = None
                 THEN [registered EXCEPT ![address] = r.ret.asset]
                 ELSE registered
            /\ exhausted' =
                 IF r.ret.kind = "OutOfCycles"
                 THEN exhausted \cup {address}
                 ELSE exhausted
            /\ UNCHANGED peer

\* A caller invokes get_asset.
DoGetAsset ==
    \E id \in AssetIDs :
        LET r == GetAsset(bank, state_adapter, ictx, id)
        IN  /\ bank' = r.self
            /\ state_adapter' = r.st
            /\ ictx' = r.ictx
            /\ last' = Call("get_asset", None, None, Some(id), r.ret)
            /\ UNCHANGED <<registered, exhausted, peer>>

\* The framework commits the session; the world state the independent session
\* stands on is the one committed to.
DoCommit ==
    /\ state_adapter' = CommitStore(state_adapter)
    /\ peer' = [peer EXCEPT !.committed = CommitStore(state_adapter).committed]
    /\ last' = Call("commit", None, None, None, None)
    /\ UNCHANGED <<bank, ictx, registered, exhausted>>

\* The framework starts the next invocation with a fresh context.
DoNewContext ==
    /\ ictx' \in Contexts
    /\ last' = Call("context", None, None, None, None)
    /\ UNCHANGED <<bank, state_adapter, registered, exhausted, peer>>

Next ==
    \/ DoRegister
    \/ DoGetAsset
    \/ DoCommit
    \/ DoNewContext

Spec == Init /\ [][Next]_vars

\* A caller invokes register on the registry of the independent session (the
\* same chain, its own state adapter).
PeerRegister ==
    \E address \in Addresses, m \in Metas :
        LET r == Register(bank, peer, ictx, address, m.name, m.symbol, m.supply)
        IN  /\ bank' = r.self
            /\ peer' = r.st
            /\ ictx' = r.ictx
            /\ last' = Call("peer_register", Some(address), Some(m), None, r.ret)
            /\ UNCHANGED <<state_adapter, registered, exhausted>>

\* A caller invokes get_asset on the registry of the independent session.
PeerGetAsset ==
    \E id \in AssetIDs :
        LET r == GetAsset(bank, peer, ictx, id)
        IN  /\ bank' = r.self
            /\ peer' = r.st
            /\ ictx' = r.ictx
            /\ last' = Call("peer_get_asset", None, None, Some(id), r.ret)
            /\ UNCHANGED <<state_adapter, registered, exhausted>>

\* Two sessions are opened on one world state; the calls share a context
\* with the largest budget.
InitIso ==
    /\ Init
    /\ ictx.cycles_limit = MaxLimit

\* Two independent store sessions on one world state, their calls interleaved,
\* up to the commit of either.
NextIso ==
    \/ DoRegister
    \/ DoGetAsset
    \/ PeerRegister
    \/ PeerGetAsset

SpecIso == InitIso /\ [][NextIso]_vars

\* ------------------------------------------------------------- properties

\* The call of the latest step was register(address, ...).
RegisterOf(call, address) ==
    call.op = "register" /\ call.address = Some(address)

\* The record register builds for an address and a (name, symbol, supply).
AssetFor(self, address, m) ==
    [name |-> m.name, symbol |-> m.symbol, supply |-> m.supply,
     id |-> AssetIdOf(self, address), manage_contract |-> address,
     storage_root |-> EmptyHash]

\* C1 (uniqueness): once register(addr) has succeeded, every later register
\* with the same addr, whatever its name, symbol, supply and context, fails
\* with AssetExists carrying the id the first call returned, and that call
\* leaves the staged and the committed store as they were.
C1_Uniqueness ==
    [][ \A a \in Addresses :
          (registered[a] # None /\ RegisterOf(last', a))
          => /\ last'.ret = AssetExists(registered[a][1].id)
             /\ state_adapter' = state_adapter ]_vars

\* A duplicate register with another name and another context budget has
\* failed, the first record being committed since.
C1_Witness ==
    /\ last.op = "register"
    /\ last.ret.kind = "AssetExists"
    /\ registered[last.address[1]] # None
    /\ registered[last.address[1]][1].name # last.meta[1].name
    /\ ictx.cycles_used = 0
    /\ FixedAssetID(last.ret.id[1]) \in DOMAIN state_adapter.committed

\* C2 as stated: after a register that failed, in whichever way, get_asset for
\* the derived id does not return an asset.
C2_Original ==
    (last.op = "register" /\ last.ret.kind # "Ok")
    => GetAsset(bank, state_adapter, ictx,
                AssetIdOf(bank, last.address[1])).ret.kind # "Ok"

\* C2 (amended): a register that fails with InvalidAddress or AssetExists
\* leaves get_asset for the derived id answering what it answered before the
\* call (for AssetExists, the asset already stored there); a register that
\* fails on the cycle limit found no record under the id and leaves the one it
\* staged readable: get_asset returns it.
C2_FailedRegister ==
    [][ \A a \in Addresses, m \in Metas :
          (RegisterOf(last', a) /\ last'.meta = Some(m)
             /\ last'.ret.kind # "Ok")
          => LET id == AssetIdOf(bank, a)
                 before == GetAsset(bank, state_adapter, ictx, id).ret
                 after == GetAsset(bank', state_adapter', ictx', id).ret
             IN  /\ last'.ret.kind \in
                      {"InvalidAddress", "AssetExists", "OutOfCycles"}
                 /\ last'.ret.kind = "OutOfCycles"
                      => /\ before = NotFound(id)
                         /\ after = Ok(AssetFor(bank, a, m))
                 /\ last'.ret.kind = "AssetExists"
                      => before.kind = "Ok" /\ after = before
                 /\ last'.ret.kind = "InvalidAddress"
                      => after = before ]_vars

\* A register has failed on the cycle limit and the id reads back an asset.
C2_Witness ==
    /\ last.op = "register"
    /\ last.ret.kind = "OutOfCycles"
    /\ GetAsset(bank, state_adapter, ictx,
                AssetIdOf(bank, last.address[1])).ret.kind = "Ok"

\* C3 (round trip): the asset a successful register returns carries the
\* supplied name, symbol and supply, manage_contract = addr, the derived id
\* and the empty storage root; and get_asset for the id of every asset a
\* register has returned, in this and every later state, returns that asset.
C3_RoundTrip ==
    /\ (last.op = "register" /\ last.ret.kind = "Ok")
       => /\ last.ret.asset = Some(AssetFor(bank, last.address[1], last.meta[1]))
          /\ registered[last.address[1]] = last.ret.asset
    /\ \A a \in Addresses :
          registered[a] # None
          => /\ GetAsset(bank, state_adapter, ictx, registered[a][1].id).ret
                  = Ok(registered[a][1])
             /\ registered[a][1].manage_contract = a
             /\ registered[a][1].storage_root = EmptyHash

\* An asset registered earlier reads back after a commit and after another
\* address, deriving the same id, was refused.
C3_Witness ==
    \E a \in Addresses :
        /\ registered[a] # None
        /\ FixedAssetID(registered[a][1].id) \in DOMAIN state_adapter.committed
        /\ last.op = "register"
        /\ last.ret = AssetExists(registered[a][1].id)
        /\ last.address # Some(a)
        /\ registered[a][1].supply = 1000

\* C4 (invalid address): register with an address whose contract type is not
\* Asset returns InvalidAddress and leaves the store and the context as they
\* were.
C4_InvalidAddress ==
    [][ \A a \in Addresses :
          (RegisterOf(last', a) /\ ContractType(a) # "Asset")
          => /\ last'.ret = InvalidAddress
             /\ state_adapter' = state_adapter
             /\ ictx' = ictx ]_vars

\* An invalid address was refused with records in both layers of the store
\* and a context that has been charged already.
C4_Witness ==
    /\ last.op = "register"
    /\ last.ret = InvalidAddress
    /\ state_adapter.cache # EmptyMap
    /\ state_adapter.committed # EmptyMap
    /\ ictx.cycles_used > 0

\* C5 (cycle accounting): a register that returns Ok leaves cycles_used at its
\* value before the call plus the metered cost of BankRegister at the
\* context's price, and not above the context's limit.
C5_CycleAccounting ==
    [][ (last'.op = "register" /\ last'.ret.kind = "Ok")
        => /\ ictx'.cycles_used =
                ictx.cycles_used + CyclesCost("BankRegister", ictx.cycles_price)
           /\ ictx'.cycles_used <= ictx.cycles_limit ]_vars

\* A second register on one context succeeded and used the budget up exactly.
C5_Witness ==
    /\ last.op = "register"
    /\ last.ret.kind = "Ok"
    /\ ictx.cycles_used = ictx.cycles_limit
    /\ ictx.cycles_used > CyclesCost("BankRegister", ictx.cycles_price)

\* C6 (cycle-limit failure keeps the staged write): a register that passes
\* the address and the existence check, and whose charge would exceed the
\* limit, returns the meter's error, and the record it built is in the staged
\* store afterwards; the committed store and the other staged records are as
\* they were.
C6_StagedWriteKept ==
    [][ \A a \in Addresses, m \in Metas :
          (RegisterOf(last', a) /\ last'.meta = Some(m)
             /\ ContractType(a) = "Asset"
             /\ ~Contains(state_adapter, FixedAssetID(AssetIdOf(bank, a)))
             /\ ictx.cycles_used + CyclesCost("BankRegister", ictx.cycles_price)
                  > ictx.cycles_limit)
          => /\ last'.ret = OutOfCycles
             /\ state_adapter'.cache =
                  Put(state_adapter.cache, FixedAssetID(AssetIdOf(bank, a)),
                      FixedAsset(AssetFor(bank, a, m)))
             /\ state_adapter'.committed = state_adapter.committed ]_vars

\* A register failed on the cycle limit and its record is staged.
C6_Witness ==
    /\ last.op = "register"
    /\ last.ret = OutOfCycles
    /\ FixedAssetID(AssetIdOf(bank, last.address[1]))
         \in DOMAIN state_adapter.cache
    /\ state_adapter.cache[FixedAssetID(AssetIdOf(bank, last.address[1]))]
         = FixedAsset(AssetFor(bank, last.address[1], last.meta[1]))

\* C7 (no partial charge): a register that fails on the cycle limit leaves
\* every field of the context, cycles_used included, as it was.
C7_NoPartialCharge ==
    [][ (last'.op = "register" /\ last'.ret.kind = "OutOfCycles")
        => ictx' = ictx ]_vars

\* A register failed on the cycle limit of a context already charged by an
\* earlier register, with budget left that does not cover the cost.
C7_Witness ==
    /\ last.op = "register"
    /\ last.ret = OutOfCycles
    /\ ictx.cycles_used > 0
    /\ ictx.cycles_used < ictx.cycles_limit

\* C8 (duplicate detection is free): a register for an Asset address whose
\* derived id is in the store returns AssetExists with that id, whatever the
\* budget left, and leaves the context and the store as they were.
C8_DuplicateIsFree ==
    [][ \A a \in Addresses :
          (RegisterOf(last', a) /\ ContractType(a) = "Asset"
             /\ Contains(state_adapter, FixedAssetID(AssetIdOf(bank, a))))
          => /\ last'.ret = AssetExists(AssetIdOf(bank, a))
             /\ ictx' = ictx
             /\ state_adapter' = state_adapter ]_vars

\* A duplicate register returned AssetExists on a budget that could not have
\* paid for BankRegister.
C8_Witness ==
    /\ last.op = "register"
    /\ last.ret.kind = "AssetExists"
    /\ ictx.cycles_used + CyclesCost("BankRegister", ictx.cycles_price)
         > ictx.cycles_limit

\* C9 (get_asset is read-only): a get_asset call, whatever it returns, leaves
\* the staged store, the committed store, the context and the registry as
\* they were.
C9_GetAssetReadOnly ==
    [][ last'.op = "get_asset"
        => /\ state_adapter' = state_adapter
           /\ ictx' = ictx
           /\ bank' = bank ]_vars

\* get_asset returned an asset from a store with staged and committed records.
C9_Witness ==
    /\ last.op = "get_asset"
    /\ last.ret.kind = "Ok"
    /\ state_adapter.cache # EmptyMap
    /\ state_adapter.committed # EmptyMap

\* C10 (not found): get_asset(id) returns NotFound carrying id when neither
\* layer of the store holds a record under id, and Ok with the stored record
\* when one does.
C10_NotFound ==
    [][ \A id \in AssetIDs :
          (last'.op = "get_asset" /\ last'.id = Some(id))
          => IF Contains(state_adapter, FixedAssetID(id))
             THEN /\ last'.ret.kind = "Ok"
                  /\ last'.ret.asset = Some(Get(state_adapter,
                                               FixedAssetID(id))[1].inner)
             ELSE last'.ret = NotFound(id) ]_vars

\* get_asset returned NotFound for an id other than the empty hash while
\* another id is registered.
C10_Witness ==
    /\ last.op = "get_asset"
    /\ last.ret.kind = "NotFound"
    /\ last.ret.id = last.id
    /\ last.id # Some(EmptyHash)
    /\ state_adapter.cache # EmptyMap

C12_CreateOnce ==
    [][ \A id \in AssetIDs :
          Contains(state_adapter, FixedAssetID(id))
          => /\ GetAsset(bank', state_adapter', ictx', id).ret
                  = GetAsset(bank, state_adapter, ictx, id).ret
             /\ GetAsset(bank', state_adapter', ictx', id).ret.kind = "Ok" ]_vars

\* A register for another address that derives the id of a stored record was
\* refused, and the record, meanwhile committed, is that of the first address.
C12_Witness ==
    /\ last.op = "register"
    /\ last.ret.kind = "AssetExists"
    /\ FixedAssetID(last.ret.id[1]) \in DOMAIN state_adapter.committed
    /\ LET stored == state_adapter.committed[FixedAssetID(last.ret.id[1])].inner
       IN  /\ stored.manage_contract # last.address[1]
           /\ AssetIdOf(bank, stored.manage_contract)
                = AssetIdOf(bank, last.address[1])
           /\ stored.name # last.meta[1].name

\* Chain ids of registries on other chains, for runs compared across chains.
AnyChainIds == ChainIds \cup {<<2>>}

\* A store session with nothing staged on an empty world state.
FreshStore == [cache |-> EmptyMap, committed |-> EmptyMap]

\* The id a register result carries: that of the asset returned, or the one
\* AssetExists reports.
CarriesId(ret, id) ==
    /\ ret.kind = "Ok" => ret.asset[1].id = id
    /\ ret.kind = "AssetExists" => ret.id = Some(id)
    /\ ret.kind \in {"Ok", "AssetExists", "OutOfCycles"}

\* C13 (determinism of identity): the id register assigns to an Asset address
\* is Hash(chain id bytes followed by address bytes): the call made by the
\* latest step, a run on the store and the context of the current state, and a
\* run of a registry of any chain on a fresh store, each with any name, symbol
\* and supply, all carry that id.
C13_DeterministicId ==
    /\ (last.op = "register" /\ ContractType(last.address[1]) = "Asset")
       => CarriesId(last.ret, Digest(bank.chain_id \o last.address[1]))
    /\ \A a \in Addresses, m \in Metas :
          ContractType(a) = "Asset"
          => /\ CarriesId(Register(bank, state_adapter, ictx, a,
                                   m.name, m.symbol, m.supply).ret,
                          Digest(bank.chain_id \o a))
             /\ \A ch \in AnyChainIds :
                  LET fresh == Register(New(ch), FreshStore, ictx, a,
                                        m.name, m.symbol, m.supply)
                  IN  /\ CarriesId(fresh.ret, Digest(ch \o a))
                      /\ DOMAIN fresh.st.cache = {FixedAssetID(Digest(ch \o a))}

\* A register succeeded on a store that holds a committed record under another
\* id, on a context charged before, for an address whose id changes when the
\* bytes are concatenated in the other order.
C13_Witness ==
    /\ last.op = "register"
    /\ last.ret.kind = "Ok"
    /\ state_adapter.committed # EmptyMap
    /\ FixedAssetID(last.ret.asset[1].id) \notin DOMAIN state_adapter.committed
    /\ ictx.cycles_used > CyclesCost("BankRegister", ictx.cycles_price)
    /\ Digest(last.address[1] \o bank.chain_id)
         # Digest(bank.chain_id \o last.address[1])

\* C14 (frame of a successful register): a register that returns Ok adds the
\* derived id, and no other key, to the staged store, leaves the record under
\* every other staged key and the committed store as they were, changes
\* cycles_used and no other field of the context, and leaves the registry's
\* chain id as it was.
C14_SuccessFrame ==
    [][ \A a \in Addresses :
          (RegisterOf(last', a) /\ last'.ret.kind = "Ok")
          => LET key == FixedAssetID(Digest(bank.chain_id \o a))
             IN  /\ key \notin DOMAIN state_adapter.cache
                 /\ DOMAIN state_adapter'.cache
                      = (DOMAIN state_adapter.cache) \cup {key}
                 /\ \A k \in DOMAIN state_adapter.cache :
                      state_adapter'.cache[k] = state_adapter.cache[k]
                 /\ state_adapter'.committed = state_adapter.committed
                 /\ ictx'.cycles_price = ictx.cycles_price
                 /\ ictx'.cycles_limit = ictx.cycles_limit
                 /\ DOMAIN ictx' = DOMAIN ictx
                 /\ bank' = bank ]_vars

\* A register succeeded next to a record staged earlier, with budget left.
C14_Witness ==
    /\ last.op = "register"
    /\ last.ret.kind = "Ok"
    /\ Cardinality(DOMAIN state_adapter.cache) = 2
    /\ ictx.cycles_used < ictx.cycles_limit

\* C15 (re-registration after a cycle-limit failure): once a register with an
\* address has failed on the cycle limit, every later register with that
\* address, whatever the context's budget, fails with AssetExists carrying the
\* derived id; it never returns Ok.
C15_NoRetryAfterExhaustion ==
    [][ \A a \in exhausted :
          RegisterOf(last', a)
          => last'.ret = AssetExists(Digest(bank.chain_id \o a)) ]_vars

\* A register was retried, on a fresh context whose budget covers the cost,
\* for an address whose register had failed on the cycle limit, and was
\* refused.
C15_Witness ==
    /\ last.op = "register"
    /\ last.address[1] \in exhausted
    /\ last.ret.kind = "AssetExists"
    /\ registered[last.address[1]] = None
    /\ ictx.cycles_used = 0
    /\ CyclesCost("BankRegister", ictx.cycles_price) <= ictx.cycles_limit

\* C16 (budget invariant): cycles_used never exceeds cycles_limit, and no
\* register, get_asset or commit step lowers the cycles_used of the context.
C16_BudgetInvariant ==
    /\ [](ictx.cycles_used <= ictx.cycles_limit)
    /\ [][ last'.op # "context"
           => ictx'.cycles_used >= ictx.cycles_used ]_vars

\* A register failed on the cycle limit of a context that an earlier register
\* had charged, and the usage stayed where it was, below the limit.
C16_Witness ==
    /\ last.op = "register"
    /\ last.ret.kind = "OutOfCycles"
    /\ ictx.cycles_used = CyclesCost("BankRegister", ictx.cycles_price)
    /\ ictx.cycles_used < ictx.cycles_limit

\* C17 (store well-formedness): every record in the staged or the committed
\* store, under key k, has id = k, k = Hash(chain id ++ manage_contract bytes),
\* a manage_contract of contract type Asset, and the empty storage root.
C17_StoreWellFormed ==
    \A layer \in {state_adapter.cache, state_adapter.committed} :
        \A k \in DOMAIN layer :
            LET record == layer[k].inner
            IN  /\ FixedAssetID(record.id) = k
                /\ record.id = Digest(bank.chain_id \o record.manage_contract)
                /\ ContractType(record.manage_contract) = "Asset"
                /\ record.manage_contract \in Addresses
                /\ record.storage_root = EmptyHash

\* Both layers hold a record, one of them staged by a register that failed on
\* the cycle limit, and a register with an App address was refused since.
C17_Witness ==
    /\ state_adapter.cache # EmptyMap
    /\ state_adapter.committed # EmptyMap
    /\ exhausted # {}
    /\ last.op = "register"
    /\ last.ret = InvalidAddress

====
